---- MODULE Spec2Model ----
(***************************************************************************)
(* py2dist: the build orchestrator (src/py2dist/compiler.py) and its CLI   *)
(* driver (src/py2dist/cli.py), over a small file system.                  *)
(*                                                                         *)
(* A file or directory NAME is a sequence of its dot-separated segments:   *)
(* "b.py" is <<"b","py">>, "pkg" is <<"pkg">>, ".py2dist" is               *)
(* <<"","py2dist">>.  A PATH STRING, as Python handles it, is a sequence   *)
(* of tokens, each a separator (<<"/">> or <<"\\">>), a blank or a name:   *)
(* "pkg/sub/b.py" is << <<"pkg">>, Sep, <<"sub">>, Sep, <<"b","py">> >>.   *)
(* A file system KEY is the sequence of names from the root to a file.     *)
(* The path functions are those of posixpath.                              *)
(***************************************************************************)
EXTENDS Integers, Sequences, FiniteSets, TLC

VARIABLES
    disk,           \* [files: key -> content, dirs: keys of the empty-able directories]
    disk0,          \* the disk when the run began (never changes)
    isWindows,      \* IS_WINDOWS (compiler.py:32)
    args,           \* the parsed command line (cli.py:67)
    pc,             \* position of main() / of the resolver run
    exclude_files,  \* cli.py:89-94, then CompileOptions.exclude_files
    compile_files,  \* compile(): compile_files (compiler.py:273)
    todo,           \* compile_files not yet handed to the toolchain
    exits,          \* exit status of every toolchain invocation, in order
    collected,      \* _collect_output has started
    result,         \* how the run ended: "" while running
    nativeDone,     \* keys of the sources the toolchain compiled
    bytecodeDone,   \* origins of the sources the bytecode step compiled
    non_compile,    \* resolver run: result of _get_non_compile_files
    treeAtParse,    \* resolver run: keys of the files when the exclusions were expanded
    added           \* resolver run: keys of the files created after the expansion

vars == <<disk, disk0, isWindows, args, pc, exclude_files, compile_files, todo,
          exits, collected, result, nativeDone, bytecodeDone, non_compile,
          treeAtParse, added>>

-----------------------------------------------------------------------------
(* Strings and names *)

Sep == <<"/">>
AltSep == <<"\\">>
Blank == <<" ">>
CurDir == <<".">>
ParDir == <<"..">>
NoPath == << <<"None">> >>

Last(s) == s[Len(s)]
Front(s) == SubSeq(s, 1, Len(s) - 1)

StartsWith(s, pre) ==
    /\ Len(pre) <= Len(s)
    /\ SubSeq(s, 1, Len(pre)) = pre

\* str.lower() on a name segment
Lower(seg) ==
    CASE seg = "PY" -> "py"
      [] seg = "PYC" -> "pyc"
      [] OTHER -> seg

\* the stems that end with "__init__"
EndsWithInitStem(seg) == seg \in {"__init__", "my__init__"}

\* str.endswith("__init__.py") on a path string
EndsWithInitPy(p) ==
    /\ p # <<>>
    /\ Len(Last(p)) >= 2
    /\ Last(Last(p)) = "py"
    /\ EndsWithInitStem(Last(p)[Len(Last(p)) - 1])

\* str.endswith(".py") / str.endswith(".pyc") on a path string
EndsWithExt(p, ext) ==
    /\ p # <<>>
    /\ Len(Last(p)) >= 2
    /\ Last(Last(p)) = ext

RECURSIVE RStrip(_, _)
RStrip(p, chars) ==
    IF p # <<>> /\ Last(p) \in chars THEN RStrip(Front(p), chars) ELSE p

RECURSIVE LStrip(_, _)
LStrip(p, chars) ==
    IF p # <<>> /\ p[1] \in chars THEN LStrip(Tail(p), chars) ELSE p

\* str.strip()
Strip(p) == LStrip(RStrip(p, {Blank}), {Blank})

\* mutant: only the forward slash is taken for a separator
NormSeps_ForwardOnly(p) == p

\* str.replace('/', os.path.sep).replace('\\', os.path.sep)
NormSeps(p) == [i \in 1..Len(p) |-> IF p[i] \in {Sep, AltSep} THEN Sep ELSE p[i]]

\* os.path.splitext(name)[1], without its dot ("" when there is none)
SplitextExt(name) ==
    IF Len(name) >= 2 /\ name[1] # "" THEN Last(name)
    ELSE IF Len(name) >= 3 THEN Last(name)
    ELSE ""

\* os.path.splitext(name)[0]
SplitextRoot(name) == IF SplitextExt(name) = "" THEN name ELSE Front(name)

-----------------------------------------------------------------------------
(* posixpath *)

IsAbs(p) == p # <<>> /\ p[1] = Sep

\* os.path.join(a, b)
Join(a, b) ==
    IF IsAbs(b) THEN b
    ELSE IF a = <<>> \/ Last(a) = Sep THEN a \o b
    ELSE a \o <<Sep>> \o b

Join3(a, b, c) == Join(Join(a, b), c)

\* the names of a path string, separators dropped
Comps(p) == SelectSeq(p, LAMBDA t : t # Sep)

RECURSIVE NormComps(_, _)
NormComps(done, rest) ==
    IF rest = <<>> THEN done
    ELSE IF rest[1] = CurDir THEN NormComps(done, Tail(rest))
    ELSE IF rest[1] = ParDir THEN
        NormComps(IF done = <<>> THEN done ELSE Front(done), Tail(rest))
    ELSE NormComps(Append(done, rest[1]), Tail(rest))

Cwd == << <<"w">> >>

\* the key of the file or directory a path string names: the names of
\* os.path.abspath(p)
Key(p) == NormComps(<<>>, IF IsAbs(p) THEN Comps(p) ELSE Cwd \o Comps(p))

RECURSIVE Render(_)
Render(k) ==
    IF k = <<>> THEN <<>>
    ELSE IF Len(k) = 1 THEN <<k[1]>>
    ELSE <<k[1], Sep>> \o Render(Tail(k))

\* os.path.abspath(p), as a string
AbsPath(p) == <<Sep>> \o Render(Key(p))

RECURSIVE LastSepIndex(_, _)
LastSepIndex(p, i) ==
    IF i = 0 THEN 0 ELSE IF p[i] = Sep THEN i ELSE LastSepIndex(p, i - 1)

\* os.path.basename(p)
Basename(p) == SubSeq(p, LastSepIndex(p, Len(p)) + 1, Len(p))

\* os.path.dirname(p)
Dirname(p) ==
    LET head == SubSeq(p, 1, LastSepIndex(p, Len(p)))
    IN  IF head # <<>> /\ \E i \in 1..Len(head) : head[i] # Sep
        THEN RStrip(head, {Sep}) ELSE head

RECURSIVE CommonLen(_, _)
CommonLen(a, b) ==
    IF a # <<>> /\ b # <<>> /\ a[1] = b[1] THEN 1 + CommonLen(Tail(a), Tail(b)) ELSE 0

\* os.path.relpath(p, start)
RelPath(p, start) ==
    LET pl == Key(p)
        sl == Key(start)
        i == CommonLen(sl, pl)
        rel == [j \in 1..(Len(sl) - i) |-> ParDir] \o SubSeq(pl, i + 1, Len(pl))
    IN  IF rel = <<>> THEN <<CurDir>> ELSE Render(rel)

-----------------------------------------------------------------------------
(* The disk *)

Under(k, d) == Len(k) > Len(d) /\ SubSeq(k, 1, Len(d)) = d

IsFileK(d, k) == k \in DOMAIN d.files
IsDirK(d, k) ==
    \/ \E x \in d.dirs : x = k \/ Under(x, k)
    \/ \E x \in DOMAIN d.files : Under(x, k)
ExistsK(d, k) == IsFileK(d, k) \/ IsDirK(d, k)

\* os.path.isfile / isdir / exists on a path string
IsFile(d, p) == IsFileK(d, Key(p))
IsDir(d, p) == IsDirK(d, Key(p))
Exists(d, p) == ExistsK(d, Key(p))

FilesUnder(d, k) == {x \in DOMAIN d.files : Under(x, k)}

\* open(..., "w") / shutil.copy: the file at key k holds content c
WriteFile(d, k, c) ==
    [d EXCEPT !.files = [x \in DOMAIN d.files \cup {k} |-> IF x = k THEN c ELSE d.files[x]]]

\* os.remove
RemoveFile(d, k) ==
    [files |-> [x \in DOMAIN d.files \ {k} |-> d.files[x]],
     dirs |-> IF Len(k) > 1 THEN d.dirs \cup {Front(k)} ELSE d.dirs]

\* shutil.rmtree
RmTree(d, k) ==
    [files |-> [x \in {y \in DOMAIN d.files : ~Under(y, k)} |-> d.files[x]],
     dirs |-> {x \in d.dirs : x # k /\ ~Under(x, k)}
              \cup (IF Len(k) > 1 /\ IsDirK(d, k) THEN {Front(k)} ELSE {})]

\* make_dirs(dirpath)
make_dirs(d, p) ==
    LET dirpath == RStrip(Strip(p), {Sep})
    IN  IF dirpath # <<>> /\ ~Exists(d, dirpath)
        THEN [d EXCEPT !.dirs = @ \cup {Key(dirpath)}]
        ELSE d

Text(k) == [kind |-> "text", of |-> k]

-----------------------------------------------------------------------------
(* get_files_in_dir *)

AnyExt == {"*"}

match_ext(fname, ext_names) ==
    IF ext_names = AnyExt THEN TRUE
    ELSE IF fname[1] = "" THEN Len(fname) = 2 /\ Lower(fname[2]) \in ext_names
    ELSE Lower(SplitextExt(fname)) \in ext_names

RECURSIVE WalkRoot(_, _)
WalkRoot(top, sub) ==
    IF sub = <<>> THEN top ELSE WalkRoot(Join(top, <<sub[1]>>), Tail(sub))

\* include_subfolder = True; path_type 0 (joined with the root) or 1 (relative)
get_files_in_dir(d, dir_path, path_type, ext_names) ==
    LET top == Key(dir_path)
        Root(k) == WalkRoot(dir_path, SubSeq(k, Len(top) + 1, Len(k) - 1))
        base_len == Len(dir_path)
    IN  { IF path_type = 0 THEN Join(Root(k), <<Last(k)>>)
          ELSE Join(LStrip(SubSeq(Root(k), base_len + 1, Len(Root(k))), {Sep}), <<Last(k)>>)
          : k \in {x \in FilesUnder(d, top) : match_ext(Last(x), ext_names)} }

-----------------------------------------------------------------------------
(* Compiler: file classification *)

\* truth value of an Optional[str]
Truthy(p) == p # NoPath /\ p # <<>>

Fail(e) == [err |-> e, files |-> {}]

validate_options(opts) ==
    IF Truthy(opts.source_file) /\ Truthy(opts.source_dir) THEN "Cannot use both"
    ELSE IF ~Truthy(opts.source_file) /\ ~Truthy(opts.source_dir) THEN "Must specify"
    ELSE ""

\* pyfiles = [f for f in pyfiles if not f.endswith("__init__.py")]
DropInit(pyfiles) == {f \in pyfiles : ~EndsWithInitPy(f)}

\* mutant: the exclusion list is not subtracted
ApplyExcludes_Ignored(pyfiles, excl) == pyfiles

\* pyfiles = list(set(pyfiles) - set(opts.exclude_files))
ApplyExcludes(pyfiles, excl) == pyfiles \ excl

DirCompileFiles(d, opts) ==
    LET pyfiles == get_files_in_dir(d, opts.source_dir, 1, {"py"})
    IN  {Join(opts.source_dir, f) : f \in ApplyExcludes(DropInit(pyfiles), opts.exclude_files)}

get_compile_files(d, opts) ==
    IF Truthy(opts.source_dir) /\ ~Exists(d, opts.source_dir)
    THEN Fail("Directory not found")
    ELSE LET files == IF Truthy(opts.source_dir) THEN DirCompileFiles(d, opts) ELSE {}
         IN  IF ~Truthy(opts.source_file) THEN [err |-> "", files |-> files]
             ELSE IF ~EndsWithExt(opts.source_file, "py") THEN Fail("Source file must be a .py file")
             ELSE IF ~Exists(d, opts.source_file) THEN Fail("File not found")
             ELSE [err |-> "", files |-> files \cup {opts.source_file}]

\* mutant: the compiled files are not taken out
get_non_compile_files_KeepsCompiled(d, opts, files) ==
    IF ~Truthy(opts.source_dir) THEN {}
    ELSE LET all_files == get_files_in_dir(d, opts.source_dir, 1, AnyExt)
         IN  {Join(opts.source_dir, f) : f \in {g \in all_files : ~EndsWithExt(g, "pyc")}}

get_non_compile_files(d, opts, files) ==
    IF ~Truthy(opts.source_dir) THEN {}
    ELSE LET all_files == get_files_in_dir(d, opts.source_dir, 1, AnyExt)
         IN  {Join(opts.source_dir, f) : f \in {g \in all_files : ~EndsWithExt(g, "pyc")}}
             \ files

-----------------------------------------------------------------------------
(* Compiler: build script, toolchain, collection *)

WorkDir == <<Sep>> \o Render(Cwd)
ScratchName == <<"", "py2dist">>
ScratchDir == << ScratchName >>
BuildDir == <<ScratchName, Sep, <<"build">> >>
BuildCDir == <<ScratchName, Sep, <<"build_c">> >>
BuildTmpDir == <<ScratchName, Sep, <<"build_tmp">> >>
AbiTag == "cpython-311"

\* the build spec of one invocation: rel_filenames and source_root
generate_build_script(opts, files) ==
    IF Truthy(opts.source_dir)
    THEN [source_root |-> Dirname(AbsPath(opts.source_dir)),
          rel_files |-> {Join(Basename(AbsPath(opts.source_dir)), RelPath(f, opts.source_dir))
                         : f \in files}]
    ELSE [source_root |-> Dirname(AbsPath(CHOOSE f \in files : TRUE)),
          rel_files |-> {Basename(f) : f \in files}]

\* script_path: .py2dist/build.py is (over)written
WriteBuildScript(d) ==
    LET script_dir == Join(WorkDir, ScratchDir)
    IN  WriteFile(make_dirs(d, script_dir), Key(Join(script_dir, << <<"build", "py">> >>)),
                  [kind |-> "script", of |-> <<>>])

\* mutant: only the output directory is cleared
clear_build_folders_OutputOnly(d, opts) ==
    IF IsDir(d, Join(WorkDir, opts.output_dir))
    THEN RmTree(d, Key(Join(WorkDir, opts.output_dir))) ELSE d

clear_build_folders(d, opts) ==
    LET Clear(dd, folder) ==
            IF IsDir(dd, Join(WorkDir, folder)) THEN RmTree(dd, Key(Join(WorkDir, folder))) ELSE dd
    IN  Clear(Clear(Clear(Clear(d, BuildDir), BuildCDir), BuildTmpDir), opts.output_dir)

clear_tmp_files(d) ==
    IF IsDir(d, Join(WorkDir, ScratchDir)) THEN RmTree(d, Key(Join(WorkDir, ScratchDir))) ELSE d

RECURSIVE FlattenSegs(_)
FlattenSegs(names) ==
    IF names = <<>> THEN <<>> ELSE names[1] \o FlattenSegs(Tail(names))

\* mod_name = rel_filename[:-3].replace(os.path.sep, '.'), as its dotted parts
ModName(rel_filename) ==
    LET names == Comps(rel_filename)
    IN  FlattenSegs(Front(names) \o <<Front(Last(names))>>)

NativeExt == IF isWindows THEN "pyd" ELSE "so"

\* where build_ext --build-lib=build_dir puts the extension module of rel_filename
ArtifactKey(rel_filename) ==
    LET mod == ModName(rel_filename)
    IN  Key(Join(WorkDir, BuildDir))
        \o [i \in 1..(Len(mod) - 1) |-> <<mod[i]>>]
        \o << <<Last(mod), AbiTag, NativeExt>> >>

\* the toolchain has built the modules `built` of the build spec
ToolchainWrites(d, spec, built) ==
    [d EXCEPT !.files =
        [x \in DOMAIN d.files \cup {ArtifactKey(r) : r \in built} |->
            IF \E r \in built : ArtifactKey(r) = x
            THEN [kind |-> "native",
                  of |-> Key(Join(spec.source_root, CHOOSE r \in built : ArtifactKey(r) = x))]
            ELSE d.files[x]]]

\* _run_cython_build up to the child process: the three build directories exist
PrepareBuildDirs(d) ==
    make_dirs(make_dirs(make_dirs(d, Join(WorkDir, BuildDir)), Join(WorkDir, BuildCDir)),
              Join(WorkDir, BuildTmpDir))

\* the exit statuses the child process can end with: cythonize fails on a source
\* file that is not there
ToolchainExits(d, files) ==
    IF \A f \in files : IsFile(d, Join(WorkDir, f)) THEN {0, 1} ELSE {1}

\* mutant: the exit status is not looked at
BuildFailed_Never(code) == FALSE

\* if code: raise RuntimeError("Cython build failed")
BuildFailed(code) == code # 0

-----------------------------------------------------------------------------
(* Bytecode compiler (py_compile / compileall) and the cache it leaves *)

CacheName == <<"__pycache__">>

\* the file a source or a copy of it was written from
Origin(d, k) == IF d.files[k].kind = "text" THEN d.files[k].of ELSE k

Pyc(d, k) == [kind |-> "pyc", of |-> Origin(d, k)]

\* py_compile.compile(src): __pycache__/<stem>.<tag>.pyc beside the source
PyCacheKey(k) == Front(k) \o <<CacheName, Front(Last(k)) \o <<AbiTag, "pyc">> >>
PyCompile(d, k) == WriteFile(d, PyCacheKey(k), Pyc(d, k))

\* the pairs <<p, s>> of modelled name segments where p is a proper prefix of s
ProperPrefixes == { <<"a", "ab">> }

\* str.startswith on file names: name begins with the characters of base_name
NameStartsWith(name, base_name) ==
    \/ StartsWith(name, base_name)
    \/ /\ Len(base_name) >= 1
       /\ Len(base_name) <= Len(name)
       /\ Front(base_name) = SubSeq(name, 1, Len(base_name) - 1)
       /\ <<Last(base_name), name[Len(base_name)]>> \in ProperPrefixes

\* f.startswith(base_name) and f.endswith('.pyc') for f in os.listdir(cache_dir)
CacheMatches(d, cache_dir, base_name) ==
    {x \in DOMAIN d.files :
        /\ Front(x) = cache_dir
        /\ NameStartsWith(Last(x), base_name)
        /\ Last(Last(x)) = "pyc"}

\* os.rmdir(cache_dir), OSError ignored
Rmdir(d, k) ==
    IF FilesUnder(d, k) = {} /\ ~\E x \in d.dirs : Under(x, k)
    THEN [d EXCEPT !.dirs = (@ \ {k}) \cup (IF Len(k) > 1 THEN {Front(k)} ELSE {})]
    ELSE d

\* splitext(dest_path)[0] + '.pyc', as a key
PycDestKey(dest_path) ==
    LET k == Key(dest_path) IN Front(k) \o <<SplitextRoot(Last(k)) \o <<"pyc">> >>

compile_init_to_pyc(d, src_path, dest_path) ==
    LET src == Key(src_path)
        d1 == PyCompile(d, src)
        cache_dir == Key(Join(Dirname(src_path), <<CacheName>>))
        base_name == SplitextRoot(Last(src))
        hits == CacheMatches(d1, cache_dir, base_name)
    IN  IF ~IsDirK(d1, cache_dir) THEN d1
        ELSE IF hits = {} THEN Rmdir(d1, cache_dir)
        ELSE LET pyc_src == CHOOSE x \in hits : TRUE
             IN  Rmdir(RemoveFile(WriteFile(d1, PycDestKey(dest_path), d1.files[pyc_src]),
                                  pyc_src), cache_dir)

-----------------------------------------------------------------------------
(* Compiler._collect_output *)

OutputDir(opts) == Join(WorkDir, opts.output_dir)

\* where a staged artifact (path relative to the staging directory) is placed
NativeDest(opts, file) ==
    LET parts == Comps(file)
        name_parts == Last(parts)
        file_name == <<name_parts[1], Last(name_parts)>>
        mid_path == Render(Front(parts))
    IN  Join3(OutputDir(opts), mid_path, <<file_name>>)

\* where a non-compiled file of the source directory is placed
VerbatimDest(opts, non_compile_file) == Join(OutputDir(opts), non_compile_file)

CollectNative(d, opts) ==
    LET build_dir == Join(WorkDir, BuildDir)
        d1 == make_dirs(d, OutputDir(opts))
        staged == get_files_in_dir(d1, build_dir, 1, {"so", "pyd"})
        DestOf(file) == Key(NativeDest(opts, file))
        dests == {DestOf(file) : file \in staged}
    IN  [d1 EXCEPT !.files =
            [x \in DOMAIN d1.files \cup dests |->
                IF x \in dests
                THEN d1.files[Key(Join(build_dir, CHOOSE file \in staged : DestOf(file) = x))]
                ELSE d1.files[x]]]

\* shutil.copyfile raises SameFileError when source and destination are one file
SameFile(opts, f) ==
    /\ ~EndsWithInitPy(f)
    /\ Key(Join(WorkDir, f)) = Key(VerbatimDest(opts, f))

CollectOne(d, opts, f) ==
    LET dest_path == VerbatimDest(opts, f)
        src_path == Join(WorkDir, f)
        d1 == make_dirs(d, Dirname(dest_path))
    IN  IF EndsWithInitPy(f) THEN compile_init_to_pyc(d1, src_path, dest_path)
        ELSE WriteFile(d1, Key(dest_path), d1.files[Key(src_path)])

RECURSIVE CollectAll(_, _, _)
CollectAll(d, opts, todoFiles) ==
    IF todoFiles = {} THEN d
    ELSE LET f == CHOOSE x \in todoFiles : TRUE
         IN  CollectAll(CollectOne(d, opts, f), opts, todoFiles \ {f})

-----------------------------------------------------------------------------
(* compile_to_bytecode *)

\* the sources compileall.compile_dir(target) compiles: *.py, outside __pycache__
CompileallSources(d, tk) ==
    {k \in FilesUnder(d, tk) :
        /\ Len(Last(k)) >= 2
        /\ Last(Last(k)) = "py"
        /\ \A i \in 1..Len(k) : k[i] # CacheName}

SimpleName(k) == Front(Last(k)) \o <<"pyc">>

\* compileall.compile_dir(target) / py_compile.compile on each source
RECURSIVE CompileAll(_, _)
CompileAll(d, ks) ==
    IF ks = {} THEN d
    ELSE LET k == CHOOSE x \in ks : TRUE IN CompileAll(PyCompile(d, k), ks \ {k})

\* the .pyc files os.walk(target) finds in the __pycache__ directories under target
CacheFiles(d, tk) ==
    {x \in FilesUnder(d, tk) :
        /\ Len(x) >= Len(tk) + 2
        /\ x[Len(x) - 1] = CacheName
        /\ Len(Last(x)) >= 2
        /\ Last(Last(x)) = "pyc"}

\* f.rsplit('.', 2)[0]
RsplitStem(name) == IF Len(name) >= 3 THEN SubSeq(name, 1, Len(name) - 2) ELSE <<name[1]>>

\* a file target in in-place mode: the first cache file that matches is moved beside
\* the target as <stem>.pyc and the target is removed; os.listdir fixes no order
InPlaceFile(d, tk) ==
    LET d1 == PyCompile(d, tk)
        cache_dir == Front(tk) \o <<CacheName>>
        base_name == SplitextRoot(Last(tk))
        dest == Front(tk) \o <<base_name \o <<"pyc">> >>
    IN  {Rmdir(RemoveFile(RemoveFile(WriteFile(d1, dest, d1.files[src]), src), tk), cache_dir)
         : src \in CacheMatches(d1, cache_dir, base_name)}

\* a file target in fresh mode: the first cache file that matches is copied to
\* output_dir/<stem>.pyc and removed, the target is kept
FreshFile(d, tk, out) ==
    LET d1 == PyCompile(make_dirs(d, <<Sep>> \o Render(out)), tk)
        cache_dir == Front(tk) \o <<CacheName>>
        base_name == SplitextRoot(Last(tk))
        dest == out \o <<base_name \o <<"pyc">> >>
    IN  {RemoveFile(WriteFile(d1, dest, d1.files[src]), src)
         : src \in CacheMatches(d1, cache_dir, base_name)}

\* one cache file of a directory target in in-place mode: moved to <stem>.pyc in the
\* directory of the cache, <stem>.py removed if it exists
InPlaceOne(d, src) ==
    LET root == Front(Front(src))
        stem == RsplitStem(Last(src))
        dest == root \o <<stem \o <<"pyc">> >>
        py_file == root \o <<stem \o <<"py">> >>
        d1 == RemoveFile(WriteFile(d, dest, d.files[src]), src)
    IN  Rmdir(IF IsFileK(d1, py_file) THEN RemoveFile(d1, py_file) ELSE d1, Front(src))

\* one cache file of a directory target in fresh mode: copied to <stem>.pyc under
\* output_dir at the relative path of the directory of the cache, then removed
FreshOne(d, src, tk, out) ==
    LET root == Front(Front(src))
        rel_root == SubSeq(root, Len(tk) + 1, Len(root))
        dest == out \o rel_root \o <<RsplitStem(Last(src)) \o <<"pyc">> >>
        d1 == make_dirs(d, <<Sep>> \o Render(Front(dest)))
    IN  Rmdir(RemoveFile(WriteFile(d1, dest, d.files[src]), src), Front(src))

\* the loops over the cache files; the modelled caches carry one version tag, so no
\* two of a directory have the same simple name and the order of os.listdir is immaterial
RECURSIVE InPlaceAll(_, _)
InPlaceAll(d, srcs) ==
    IF srcs = {} THEN d
    ELSE LET src == CHOOSE x \in srcs : TRUE IN InPlaceAll(InPlaceOne(d, src), srcs \ {src})

RECURSIVE FreshAll(_, _, _, _)
FreshAll(d, srcs, tk, out) ==
    IF srcs = {} THEN d
    ELSE LET src == CHOOSE x \in srcs : TRUE
         IN  FreshAll(FreshOne(d, src, tk, out), srcs \ {src}, tk, out)

Raised(d, e) == [err |-> e, disk |-> d, compiled |-> {}]

\* the outcomes of compile_to_bytecode: the disk it leaves and the sources it compiled
compile_to_bytecode(d, target0, output_dir0, in_place) ==
    LET target == AbsPath(target0)
        tk == Key(target)
        out == Key(AbsPath(output_dir0))
    IN  IF IsFile(d, target) THEN
            IF ~EndsWithExt(target, "py")
            THEN {Raised(d, "Bytecode target must be a .py file or directory")}
            ELSE {[err |-> "", disk |-> d2, compiled |-> {Origin(d, tk)}]
                  : d2 \in IF in_place THEN InPlaceFile(d, tk) ELSE FreshFile(d, tk, out)}
        ELSE IF IsDir(d, target) THEN
            LET d1 == CompileAll(d, CompileallSources(d, tk))
            IN  {[err |-> "",
                  disk |-> IF in_place THEN InPlaceAll(d1, CacheFiles(d1, tk))
                           ELSE FreshAll(d1, CacheFiles(d1, tk), tk, out),
                  compiled |-> {Origin(d, k) : k \in CompileallSources(d, tk)}]}
        ELSE {Raised(d, "Target not found")}

-----------------------------------------------------------------------------
(* cli.py *)

\* one entry of value.split(","): the strings it adds to the exclusion list
ParseEntry(d, raw, root_dir) ==
    LET root_dir_normalized == NormSeps(root_dir)
        root_prefix == root_dir_normalized \o <<Sep>>
        stripped == Strip(raw)
        path == NormSeps(stripped)
        rel == IF StartsWith(path, root_prefix)
               THEN SubSeq(path, Len(root_prefix) + 1, Len(path)) ELSE path
    IN  IF stripped = <<>> THEN {}
        ELSE IF ~StartsWith(path, root_prefix) /\ path = root_dir_normalized THEN {}
        ELSE IF rel # <<>> /\ Last(rel) = Sep THEN
            LET dir_path == RStrip(rel, {Sep})
                full_dir == Join(root_dir, dir_path)
            IN  IF IsDir(d, full_dir)
                THEN {Join(dir_path, f) : f \in get_files_in_dir(d, full_dir, 1, AnyExt)}
                ELSE {}
        ELSE {rel}

\* value: the entries of the comma-separated string
parse_exclude_files(d, value, root_dir) ==
    UNION {ParseEntry(d, value[i], root_dir) : i \in 1..Len(value)}

\* bytecode_abs == source_dir_abs or bytecode_abs.startswith(source_dir_abs + os.path.sep)
InsideSource(bytecode_abs, source_dir_abs) ==
    \/ bytecode_abs = source_dir_abs
    \/ StartsWith(bytecode_abs, source_dir_abs \o <<Sep>>)

\* mutant: the bytecode target adds nothing to the exclusion list
get_bytecode_excludes_Nothing(d, bytecode_target, source_dir) == {}

get_bytecode_excludes(d, bytecode_target, source_dir) ==
    LET source_dir_abs == AbsPath(RStrip(source_dir, {Sep, AltSep}))
        bytecode_abs == AbsPath(bytecode_target)
    IN  IF ~InsideSource(bytecode_abs, source_dir_abs) THEN {}
        ELSE IF IsFile(d, bytecode_abs) THEN
            IF ~EndsWithExt(bytecode_abs, "py") THEN {}
            ELSE {RelPath(bytecode_abs, source_dir_abs)}
        ELSE IF IsDir(d, bytecode_abs) THEN
            {RelPath(f, source_dir_abs) : f \in get_files_in_dir(d, bytecode_abs, 0, {"py"})}
        ELSE {}

\* exclude_files as main() hands it to CompileOptions
MainExcludes(d, a) ==
    (IF a.exclude # <<>> /\ Truthy(a.source_dir)
     THEN parse_exclude_files(d, a.exclude, RStrip(a.source_dir, {Sep})) ELSE {})
    \cup
    (IF Truthy(a.bytecode_target) /\ Truthy(a.source_dir)
     THEN get_bytecode_excludes(d, a.bytecode_target, a.source_dir) ELSE {})

\* opts = CompileOptions(...)
Options(a, excl) ==
    [source_file |-> a.source_file,
     source_dir |-> IF Truthy(a.source_dir) THEN RStrip(a.source_dir, {Sep}) ELSE NoPath,
     exclude_files |-> excl,
     output_dir |-> a.output_dir,
     release |-> a.release]

\* target_in_output of the bytecode step
TargetInOutput(a) ==
    LET source_dir_abs == AbsPath(RStrip(a.source_dir, {Sep, AltSep}))
        bytecode_abs == AbsPath(a.bytecode_target)
        rel == RelPath(bytecode_abs, source_dir_abs)
    IN  IF Truthy(a.source_dir) /\ InsideSource(bytecode_abs, source_dir_abs)
        THEN IF rel = <<CurDir>>
             THEN Join(a.output_dir, Basename(source_dir_abs))
             ELSE Join3(a.output_dir, Basename(source_dir_abs), rel)
        ELSE Join(a.output_dir, Basename(RStrip(a.bytecode_target, {Sep, AltSep})))

-----------------------------------------------------------------------------
(* The modelled disks and command lines *)

MaxFiles == 3

W == <<"w">>
Pkg == <<"pkg">>
Sub == <<"sub">>
Src == <<"src">>
Other == <<"other">>
Dist == <<"dist">>
APy == <<"a", "py">>
BPy == <<"b", "py">>
CPy == <<"c", "py">>
InitPy == <<"__init__", "py">>
DataJson == <<"data", "json">>
Missing == << <<"nodir">> >>

\* the files a source directory may hold, relative to it
TreeFiles == { <<APy>>, <<Sub, BPy>>, <<Sub, InitPy>>, <<DataJson>> }

Trees == {t \in SUBSET TreeFiles : Cardinality(t) <= MaxFiles}

\* the ways the source directory is named: simple, nested relative, absolute
Homes == { <<Pkg>>, <<Src, Sep, Pkg>>, <<Sep, W, Sep, Pkg>> }

\* leftovers of an earlier run: a staged artifact, a build spec, a distribution tree
StaleFiles ==
    { Cwd \o <<ScratchName, <<"build">>, Pkg, <<"old", AbiTag, "so">> >>,
      Cwd \o <<ScratchName, <<"build", "py">> >>,
      Cwd \o <<Dist, Pkg, <<"old", "so">> >> }

MkDisk(home, tree, stale) ==
    LET src == {Key(home) \o t : t \in tree} \cup {Cwd \o <<Other, CPy>>}
        old == IF stale THEN StaleFiles ELSE {}
    IN  [files |-> [k \in src \cup old |->
                      IF k \in src THEN Text(k) ELSE [kind |-> "stale", of |-> k]],
         dirs |-> {Key(home)}]

BytecodeTargets(home) ==
    { NoPath, home, Join(home, <<Sub>>), Join(home, <<APy>>), Join(home, <<DataJson>>),
      <<Other>>, Missing }

Excludes == { <<>>, << <<Sub, Sep>> >>, << <<APy>> >> }

Args(sf, sd, ex, bt, cc, rel) ==
    [source_file |-> sf, source_dir |-> sd, output_dir |-> <<Dist>>, exclude |-> ex,
     bytecode_target |-> bt, ccache |-> cc, release |-> rel]

DirRuns(home) ==
    { Args(NoPath, sd, ex, bt, "none", rel) :
        sd \in {home} \cup (IF home = <<Pkg>> THEN {home \o <<Sep>>, Missing} ELSE {}),
        ex \in Excludes, bt \in BytecodeTargets(home), rel \in BOOLEAN }

FileRuns(home) ==
    { Args(sf, NoPath, <<>>, bt, "none", FALSE) :
        sf \in {Join(home, <<APy>>), Join(home, <<DataJson>>)},
        bt \in {NoPath, <<Other>>} }

OtherRuns(home) ==
    { Args(NoPath, NoPath, <<>>, bt, "none", FALSE) : bt \in BytecodeTargets(home) }
    \cup { Args(Join(home, <<APy>>), home, <<>>, NoPath, "none", FALSE),
           Args(NoPath, home, <<>>, NoPath, "bad", FALSE),
           Args(NoPath, home, <<>>, NoPath, "good", FALSE) }

\* -o: the default, and a directory named as the simple source directory is
OutputDirs == { <<Dist>>, <<Pkg>> }

CommandLines(home) ==
    { [a EXCEPT !.output_dir = out] :
        a \in DirRuns(home) \cup FileRuns(home) \cup OtherRuns(home), out \in OutputDirs }

Init ==
    \E home \in Homes, tree \in Trees, stale \in BOOLEAN :
        /\ disk = MkDisk(home, tree, stale)
        /\ disk0 = disk
        /\ isWindows \in BOOLEAN
        /\ args \in CommandLines(home)
        /\ pc = "main"
        /\ exclude_files = {}
        /\ compile_files = {}
        /\ todo = {}
        /\ exits = <<>>
        /\ collected = FALSE
        /\ result = ""
        /\ nativeDone = {}
        /\ bytecodeDone = {}
        /\ non_compile = {}
        /\ treeAtParse = {}
        /\ added = {}

-----------------------------------------------------------------------------
(* main() *)

resolverVars == <<non_compile, treeAtParse, added>>

End(r) == pc' = "done" /\ result' = r

\* cli.py:71-73
Usage ==
    /\ pc = "main"
    /\ ~Truthy(args.source_file) /\ ~Truthy(args.source_dir)
    /\ ~Truthy(args.bytecode_target)
    /\ End("usage")
    /\ UNCHANGED <<disk, disk0, isWindows, args, exclude_files, compile_files, todo, exits,
                   collected, nativeDone, bytecodeDone, resolverVars>>

\* cli.py:75-83
BytecodeOnly ==
    /\ pc = "main"
    /\ ~Truthy(args.source_file) /\ ~Truthy(args.source_dir)
    /\ Truthy(args.bytecode_target)
    /\ \E r \in compile_to_bytecode(disk, args.bytecode_target, args.output_dir, FALSE) :
           /\ disk' = r.disk
           /\ bytecodeDone' = r.compiled
           /\ End(IF r.err = "" THEN "ok" ELSE r.err)
    /\ UNCHANGED <<disk0, isWindows, args, exclude_files, compile_files, todo, exits,
                   collected, nativeDone, resolverVars>>

\* cli.py:85-87
BothSelectors ==
    /\ pc = "main"
    /\ Truthy(args.source_file) /\ Truthy(args.source_dir)
    /\ End("Cannot use both")
    /\ UNCHANGED <<disk, disk0, isWindows, args, exclude_files, compile_files, todo, exits,
                   collected, nativeDone, bytecodeDone, resolverVars>>

\* cli.py:89-107
Prepare ==
    /\ pc = "main"
    /\ Truthy(args.source_file) # Truthy(args.source_dir)
    /\ exclude_files' = MainExcludes(disk, args)
    /\ IF args.ccache = "bad" THEN End("ccache not found")
       ELSE pc' = "compile" /\ result' = ""
    /\ UNCHANGED <<disk, disk0, isWindows, args, compile_files, todo, exits,
                   collected, nativeDone, bytecodeDone, resolverVars>>

\* cli.py:109-121, compiler.py:272-278
CompileBegin ==
    /\ pc = "compile"
    /\ LET opts == Options(args, exclude_files)
           r == get_compile_files(disk, opts)
       IN  IF validate_options(opts) # "" THEN
               End(validate_options(opts)) /\ UNCHANGED <<disk, compile_files, todo>>
           ELSE IF r.err # "" THEN
               End(r.err) /\ UNCHANGED <<disk, compile_files, todo>>
           ELSE IF r.files = {} THEN
               End("No files to compile") /\ UNCHANGED <<disk, compile_files, todo>>
           ELSE /\ disk' = clear_build_folders(disk, opts)
                /\ compile_files' = r.files
                /\ todo' = r.files
                /\ pc' = "build"
                /\ result' = ""
    /\ UNCHANGED <<disk0, isWindows, args, exclude_files, exits, collected, nativeDone,
                   bytecodeDone, resolverVars>>

\* the files of one toolchain invocation: one file on Windows, all of them elsewhere
Batches == IF isWindows THEN {{f} : f \in todo} ELSE {todo}

\* compiler.py:281-287: one _generate_build_script and one _run_cython_build
RunBuild ==
    /\ pc = "build"
    /\ \E batch \in Batches : \E code \in ToolchainExits(disk, batch) :
        LET opts == Options(args, exclude_files)
            spec == generate_build_script(opts, batch)
            d1 == PrepareBuildDirs(WriteBuildScript(disk))
        IN  /\ exits' = Append(exits, code)
            /\ \E built \in IF code = 0 THEN {spec.rel_files}
                            ELSE (SUBSET {r \in spec.rel_files :
                                             IsFile(d1, Join(spec.source_root, r))})
                                     \ {spec.rel_files} :
                /\ disk' = ToolchainWrites(d1, spec, built)
                /\ nativeDone' = nativeDone \cup {Key(Join(spec.source_root, r)) : r \in built}
            /\ IF BuildFailed(code) THEN
                   End("Cython build failed") /\ UNCHANGED todo
               ELSE /\ todo' = todo \ batch
                    /\ pc' = IF todo' = {} THEN "collect" ELSE "build"
                    /\ result' = ""
    /\ UNCHANGED <<disk0, isWindows, args, exclude_files, compile_files, collected,
                   bytecodeDone, resolverVars>>

\* compiler.py:289-292: _collect_output, then _clear_tmp_files in release mode
Collect ==
    /\ pc = "collect"
    /\ collected' = TRUE
    /\ LET opts == Options(args, exclude_files)
           d1 == CollectNative(disk, opts)
           files == get_non_compile_files(d1, opts, compile_files)
           same == {f \in files : SameFile(opts, f)}
           d2 == CollectAll(d1, opts, files)
       IN  IF same = {} THEN
               /\ disk' = IF opts.release THEN clear_tmp_files(d2) ELSE d2
               /\ IF Truthy(args.bytecode_target)
                  THEN pc' = "bytecode" /\ result' = ""
                  ELSE End("ok")
           ELSE \E before \in SUBSET (files \ same) :
               /\ disk' = CollectAll(d1, opts, before)
               /\ End("SameFileError")
    /\ UNCHANGED <<disk0, isWindows, args, exclude_files, compile_files, todo, exits,
                   nativeDone, bytecodeDone, resolverVars>>

\* cli.py:129-151
BytecodeStep ==
    /\ pc = "bytecode"
    /\ \E r \in IF Exists(disk, TargetInOutput(args))
                THEN compile_to_bytecode(disk, TargetInOutput(args), args.output_dir, TRUE)
                ELSE compile_to_bytecode(disk, args.bytecode_target, args.output_dir, FALSE) :
           /\ disk' = r.disk
           /\ bytecodeDone' = r.compiled
           /\ End(IF r.err = "" THEN "ok" ELSE r.err)
    /\ UNCHANGED <<disk0, isWindows, args, exclude_files, compile_files, todo, exits,
                   collected, nativeDone, resolverVars>>

Next ==
    \/ Usage
    \/ BytecodeOnly
    \/ BothSelectors
    \/ Prepare
    \/ CompileBegin
    \/ RunBuild
    \/ Collect
    \/ BytecodeStep

Spec == Init /\ [][Next]_vars

-----------------------------------------------------------------------------
(* The resolver alone: parse_exclude_files, then _get_compile_files and       *)
(* _get_non_compile_files, with files created in between                      *)

MaxEntries == 1

OldPyc == <<"old", "pyc">>
MyInitPy == <<"my__init__", "py">>
UpperPy == <<"c", "PY">>
NewPy == <<"new", "py">>

ResolverTreeFiles == TreeFiles \cup { <<Sub, OldPyc>>, <<MyInitPy>>, <<UpperPy>> }

ResolverTrees == {t \in SUBSET ResolverTreeFiles : Cardinality(t) <= MaxFiles}

\* the files that may appear after the exclusions were expanded
Addable == { <<Sub, NewPy>>, <<Sub, BPy>>, <<APy>> }

WithAltSep(p) == [i \in 1..Len(p) |-> IF p[i] = Sep THEN AltSep ELSE p[i]]

\* the exclusion entries: what is typed, and what it names relative to the source
\* directory (a directory, a file, or the source root itself)
Entries(home) ==
    << [raw |-> <<Sub, Sep>>, kind |-> "dir", rel |-> <<Sub>>],
       [raw |-> <<Sub, AltSep>>, kind |-> "dir", rel |-> <<Sub>>],
       [raw |-> <<Blank>> \o home \o <<Sep, Sub, Sep, Blank>>, kind |-> "dir", rel |-> <<Sub>>],
       [raw |-> home, kind |-> "root", rel |-> <<>>],
       [raw |-> WithAltSep(home), kind |-> "root", rel |-> <<>>],
       [raw |-> <<APy>>, kind |-> "file", rel |-> <<APy>>],
       [raw |-> <<Sub, AltSep, BPy>>, kind |-> "file", rel |-> <<Sub, BPy>>],
       [raw |-> WithAltSep(home) \o <<AltSep, Sub, AltSep, NewPy>>, kind |-> "file",
        rel |-> <<Sub, NewPy>>] >>

\* the values of -m: increasing selections of at most MaxEntries entries
RECURSIVE Increasing(_, _)
Increasing(n, len) ==
    IF len = 0 THEN {<<>>}
    ELSE Increasing(n, len - 1)
         \cup {Append(s, i) : s \in {t \in Increasing(n, len - 1) : Len(t) = len - 1},
                              i \in 1..n}

Selections(n) ==
    {s \in Increasing(n, MaxEntries) : \A i \in 1..(Len(s) - 1) : s[i] < s[i + 1]}

ExcludeValues(home) ==
    {[i \in 1..Len(s) |-> Entries(home)[s[i]].raw] : s \in Selections(Len(Entries(home)))}

ResolveInit ==
    \E home \in Homes, tree \in ResolverTrees :
        /\ disk = MkDisk(home, tree, FALSE)
        /\ disk0 = disk
        /\ isWindows = FALSE
        /\ args \in {Args(NoPath, home, ex, NoPath, "none", FALSE) : ex \in ExcludeValues(home)}
        /\ pc = "parse"
        /\ exclude_files = {}
        /\ compile_files = {}
        /\ todo = {}
        /\ exits = <<>>
        /\ collected = FALSE
        /\ result = ""
        /\ nativeDone = {}
        /\ bytecodeDone = {}
        /\ non_compile = {}
        /\ treeAtParse = {}
        /\ added = {}

runVars == <<disk0, isWindows, args, todo, exits, collected, result, nativeDone, bytecodeDone>>

\* cli.py:91
ParseExcludes ==
    /\ pc = "parse"
    /\ exclude_files' = parse_exclude_files(disk, args.exclude, RStrip(args.source_dir, {Sep}))
    /\ treeAtParse' = DOMAIN disk.files
    /\ pc' = "parsed"
    /\ UNCHANGED <<disk, compile_files, non_compile, added, runVars>>

\* another process creates a file in the source directory
CreateFile ==
    /\ pc = "parsed"
    /\ \E rel \in Addable :
        LET k == Key(args.source_dir) \o rel
        IN  /\ k \notin DOMAIN disk.files
            /\ disk' = WriteFile(disk, k, Text(k))
            /\ added' = added \cup {k}
    /\ UNCHANGED <<pc, exclude_files, compile_files, non_compile, treeAtParse, runVars>>

\* compiler.py:273 and compiler.py:246
Resolve ==
    /\ pc = "parsed"
    /\ LET opts == Options(args, exclude_files)
           r == get_compile_files(disk, opts)
       IN  /\ compile_files' = r.files
           /\ non_compile' = get_non_compile_files(disk, opts, r.files)
    /\ pc' = "resolved"
    /\ UNCHANGED <<disk, exclude_files, treeAtParse, added, runVars>>

ResolveNext ==
    \/ ParseExcludes
    \/ CreateFile
    \/ Resolve

ResolveSpec == ResolveInit /\ [][ResolveNext]_vars

-----------------------------------------------------------------------------
(* compile_to_bytecode alone, called on a target in either mode *)

AbPy == <<"ab", "py">>

\* the files the target directory may hold, relative to it
BytecodeTreeFiles == { <<APy>>, <<AbPy>>, <<Sub, BPy>>, <<DataJson>> }

BytecodeTrees == {t \in SUBSET BytecodeTreeFiles : Cardinality(t) <= MaxFiles}

\* a cache file an earlier import of module ab has left in the target directory
ImportCaches == { Cwd \o <<Pkg, CacheName, <<"ab", AbiTag, "pyc">> >> }

BytecodeDisk(tree, caches) ==
    LET src == {Cwd \o <<Pkg>> \o t : t \in tree}
    IN  [files |-> [k \in src \cup caches |->
                      IF k \in src THEN Text(k)
                      ELSE [kind |-> "pyc", of |-> Cwd \o <<Pkg, AbPy>>]],
         dirs |-> {Cwd \o <<Pkg>>}]

Targets ==
    { <<Pkg>>, <<Pkg, Sep, APy>>, <<Pkg, Sep, AbPy>>, <<Pkg, Sep, Sub>>,
      <<Pkg, Sep, DataJson>>, Missing }

BytecodeInit ==
    \E tree \in BytecodeTrees, caches \in SUBSET ImportCaches, target \in Targets :
        /\ disk = BytecodeDisk(tree, caches)
        /\ disk0 = disk
        /\ isWindows = FALSE
        /\ args = Args(NoPath, NoPath, <<>>, target, "none", FALSE)
        /\ pc = "call"
        /\ exclude_files = {}
        /\ compile_files = {}
        /\ todo = {}
        /\ exits = <<>>
        /\ collected = FALSE
        /\ result = ""
        /\ nativeDone = {}
        /\ bytecodeDone = {}
        /\ non_compile = {}
        /\ treeAtParse = {}
        /\ added = {}

\* compiler.py:345-452, with in_place False or True
CompileToBytecode ==
    /\ pc = "call"
    /\ \E in_place \in BOOLEAN :
        \E r \in compile_to_bytecode(disk, args.bytecode_target, args.output_dir, in_place) :
           /\ disk' = r.disk
           /\ bytecodeDone' = r.compiled
           /\ result' = IF r.err = "" THEN "ok" ELSE r.err
           /\ pc' = IF in_place THEN "in_place" ELSE "fresh"
    /\ UNCHANGED <<disk0, isWindows, args, exclude_files, compile_files, todo, exits,
                   collected, nativeDone, resolverVars>>

BytecodeNext == CompileToBytecode

BytecodeSpec == BytecodeInit /\ [][BytecodeNext]_vars

-----------------------------------------------------------------------------
(* Claims about the resolver (ResolveSpec) *)

RootDir == RStrip(args.source_dir, {Sep})
HomeKey == Key(args.source_dir)
Keys(paths) == {Key(f) : f \in paths}

\* the files of the source directory, by what they are
SourceTree == FilesUnder(disk, HomeKey)
IsPySource(k) == Len(Last(k)) >= 2 /\ Lower(Last(Last(k))) = "py"
IsPackageInit(k) == Last(k) = InitPy
IsBytecode(k) == Len(Last(k)) >= 2 /\ Last(Last(k)) = "pyc"
ExcludedKeys == {Key(Join(RootDir, e)) : e \in exclude_files}

\* C2: no file named by the expanded exclusion list is in the set returned by
\* _get_compile_files, and that set is contained in the set returned for the empty
\* exclusion list on the same tree.
C2_ExcludedNeverCompiled ==
    pc = "resolved" =>
        /\ Keys(compile_files) \cap ExcludedKeys = {}
        /\ compile_files \subseteq get_compile_files(disk, Options(args, {})).files

C2_Witness ==
    /\ pc = "resolved"
    /\ compile_files # {}
    /\ \E k \in ExcludedKeys \cap SourceTree : IsPySource(k) /\ ~IsPackageInit(k)

PackageInitFiles == {k \in SourceTree : IsPackageInit(k)}
NonBytecodeFiles == {k \in SourceTree : ~IsBytecode(k)}

\* C3 as stated: the result of _get_compile_files, the result of _get_non_compile_files
\* and the package-init files are pairwise disjoint and cover the non-.pyc files.
C3_AsStated ==
    pc = "resolved" =>
        /\ Keys(compile_files) \cap Keys(non_compile) = {}
        /\ Keys(compile_files) \cap PackageInitFiles = {}
        /\ Keys(non_compile) \cap PackageInitFiles = {}
        /\ Keys(compile_files) \cup Keys(non_compile) \cup PackageInitFiles = NonBytecodeFiles

\* C3, amended: the result of _get_compile_files and the result of
\* _get_non_compile_files are disjoint and their union is exactly the non-.pyc files
\* of the source directory; every package-init file is in the result of
\* _get_non_compile_files and none is in the compiled set, so the compiled files, the
\* package-init files and the rest of the non-compiled files are three disjoint
\* classes that cover the non-.pyc files.
C3_Partition ==
    pc = "resolved" =>
        /\ Keys(compile_files) \cap Keys(non_compile) = {}
        /\ Keys(compile_files) \cup Keys(non_compile) = NonBytecodeFiles
        /\ Cardinality(compile_files) + Cardinality(non_compile)
               = Cardinality(NonBytecodeFiles)
        /\ PackageInitFiles \subseteq Keys(non_compile)
        /\ PackageInitFiles \cap Keys(compile_files) = {}

C3_Witness ==
    /\ pc = "resolved"
    /\ compile_files # {}
    /\ PackageInitFiles # {}
    /\ Keys(non_compile) \ PackageInitFiles # {}
    /\ \E k \in SourceTree : IsBytecode(k)

\* what the entries of -m name, from the table of entries: a directory entry names
\* the files under it when the exclusions were expanded
EntryOf(raw) ==
    LET es == Entries(args.source_dir)
    IN  es[CHOOSE i \in 1..Len(es) : es[i].raw = raw]

NamedBy(e) ==
    CASE e.kind = "root" -> {}
      [] e.kind = "file" -> {HomeKey \o e.rel}
      [] e.kind = "dir" -> {k \in treeAtParse : Under(k, HomeKey \o e.rel)}

Expansion == UNION {NamedBy(EntryOf(args.exclude[i])) : i \in 1..Len(args.exclude)}

\* C10: an entry equal to the source root excludes nothing; a directory entry with a
\* trailing separator, in either separator convention, excludes exactly the files
\* that were under the directory when parse_exclude_files ran; a source file created
\* under it afterwards is not excluded and is compiled by a later _get_compile_files.
C10_PointInTimeExpansion ==
    /\ pc \in {"parsed", "resolved"} => ExcludedKeys = Expansion
    /\ pc = "resolved" =>
           /\ Keys(compile_files) \cap Expansion = {}
           /\ \A k \in added \ Expansion : IsPySource(k) => k \in Keys(compile_files)

C10_Witness ==
    /\ pc = "resolved"
    /\ \E i \in 1..Len(args.exclude) : EntryOf(args.exclude[i]).kind = "dir"
    /\ \E k \in treeAtParse : Under(k, HomeKey \o <<Sub>>) /\ k \in ExcludedKeys
    /\ \E k \in added : Under(k, HomeKey \o <<Sub>>) /\ k \in Keys(compile_files)

-----------------------------------------------------------------------------
(* Claims about a run of main() (Spec) *)

OutputKey == Key(Join(WorkDir, args.output_dir))
ScratchKey == Key(Join(WorkDir, ScratchDir))
IsNative(k) == Len(Last(k)) >= 2 /\ Last(Last(k)) \in {"so", "pyd"}
NativeInOutput == {k \in FilesUnder(disk, OutputKey) : IsNative(k)}

\* where the toolchain stages the extension module of compile file f
StagedKey(f) ==
    ArtifactKey(CHOOSE r \in generate_build_script(Options(args, exclude_files), {f}).rel_files : TRUE)

FailedAt(i) == exits[i] # 0

\* C1: _collect_output starts only after every toolchain invocation has exited with
\* status 0 (batched or per file); once an invocation exits non-zero it is the last
\* one, collection never starts, the run ends in "Cython build failed", the staged
\* artifacts of the files built before it stay, and the output directory holds no
\* native artifact.
C1_CollectOnlyAfterSuccess ==
    /\ collected =>
           /\ exits # <<>>
           /\ todo = {}
           /\ \A i \in 1..Len(exits) : ~FailedAt(i)
    /\ (\E i \in 1..Len(exits) : FailedAt(i)) =>
           /\ \A i \in 1..Len(exits) : FailedAt(i) <=> i = Len(exits)
           /\ ~collected
           /\ pc = "done"
           /\ result = "Cython build failed"
           /\ \A f \in compile_files \ todo : StagedKey(f) \in DOMAIN disk.files
           /\ NativeInOutput = {}

C1_Witness ==
    /\ pc = "done"
    /\ result = "Cython build failed"
    /\ Len(exits) >= 2
    /\ \E f \in compile_files \ todo : StagedKey(f) \in DOMAIN disk.files
    /\ \E k \in DOMAIN disk0.files : Under(k, OutputKey) /\ IsNative(k)

DirRun == Truthy(args.source_dir) /\ ~Truthy(args.source_file) /\ args.ccache # "bad"
SourceExists == Truthy(args.source_dir) /\ Exists(disk0, args.source_dir)
SourcesOfDir == {k \in FilesUnder(disk0, HomeKey) : IsPySource(k)}

\* a bytecode artifact of source k somewhere in the distribution tree
BytecodeInOutput(k) ==
    \E x \in FilesUnder(disk, OutputKey) :
        /\ disk.files[x] = [kind |-> "pyc", of |-> k]
        /\ Last(x) = SimpleName(k)

\* C4 as stated: with a directory compile and a bytecode target equal to the source
\* directory, every source file is excluded, nothing is compiled natively, and the
\* run ends with every source file bytecode-compiled in the distribution tree.
C4_AsStated ==
    ( /\ pc = "done"
      /\ DirRun
      /\ SourceExists
      /\ Truthy(args.bytecode_target)
      /\ Key(args.bytecode_target) = HomeKey
      /\ SourcesOfDir # {} ) =>
        /\ SourcesOfDir \subseteq ExcludedKeys
        /\ compile_files = {}
        /\ nativeDone = {}
        /\ result = "ok"
        /\ \A k \in SourcesOfDir : BytecodeInOutput(k)

CompileSucceeded ==
    /\ collected
    /\ \/ pc = "bytecode"
       \/ pc = "done" /\ result = "ok" /\ ~Truthy(args.bytecode_target)

\* the path of key k relative to the source directory (to its parent for a single file)
RelToSource(k) ==
    IF Truthy(args.source_dir) THEN SubSeq(k, Len(HomeKey) + 1, Len(k)) ELSE <<Last(k)>>

WithExt(rel, ext) == Front(rel) \o <<Front(Last(rel)) \o <<ext>> >>

\* the directories of the distribution tree
OutputRoots ==
    {OutputKey} \cup UNION {{SubSeq(k, 1, n) : n \in Len(OutputKey)..(Len(k) - 1)}
                             : k \in FilesUnder(disk, OutputKey)}

VerbatimFiles ==
    {k \in FilesUnder(disk0, HomeKey) :
        /\ ~IsBytecode(k)
        /\ ~IsPackageInit(k)
        /\ k \notin Keys(compile_files)}

\* C6 as stated: after a successful compile() one root inside the output directory
\* holds, at the path mirroring each file's path relative to the source tree, the
\* native artifact of every compiled file and an exact copy of every verbatim file,
\* however the source directory is named.
C6_AsStated ==
    CompileSucceeded =>
        \E root \in OutputRoots :
            /\ \A f \in Keys(compile_files) :
                   /\ root \o WithExt(RelToSource(f), NativeExt) \in DOMAIN disk.files
                   /\ disk.files[root \o WithExt(RelToSource(f), NativeExt)]
                          = [kind |-> "native", of |-> f]
            /\ Truthy(args.source_dir) =>
                   \A v \in VerbatimFiles :
                       /\ root \o RelToSource(v) \in DOMAIN disk.files
                       /\ disk.files[root \o RelToSource(v)] = disk0.files[v]

\* C7 as stated: after a successful compile() of a directory, every package-init file
\* p/__init__.py has a bytecode artifact p/__init__.pyc in the distribution tree and no
\* text copy there, and is not in the native compiled set.
C7_AsStated ==
    (CompileSucceeded /\ Truthy(args.source_dir)) =>
        \A k \in {x \in FilesUnder(disk0, HomeKey) : IsPackageInit(x)} :
            /\ \E root \in OutputRoots :
                   /\ root \o WithExt(RelToSource(k), "pyc") \in DOMAIN disk.files
                   /\ disk.files[root \o WithExt(RelToSource(k), "pyc")]
                          = [kind |-> "pyc", of |-> k]
            /\ ~\E x \in FilesUnder(disk, OutputKey) : disk.files[x] = Text(k)
            /\ k \notin Keys(compile_files)
            /\ k \notin nativeDone

NotFoundErrors == {"Directory not found", "File not found", "Target not found"}

ConfigErrors ==
    {"usage", "Cannot use both", "Must specify", "Source file must be a .py file",
     "Bytecode target must be a .py file or directory", "ccache not found"}

\* the scratch workspace and the output directory are as they were when the run began
WorkspaceUnchanged ==
    /\ \A k \in DOMAIN disk.files \cup DOMAIN disk0.files :
           (Under(k, ScratchKey) \/ Under(k, OutputKey)) =>
               /\ k \in DOMAIN disk.files
               /\ k \in DOMAIN disk0.files
               /\ disk.files[k] = disk0.files[k]
    /\ IsDirK(disk, ScratchKey) <=> IsDirK(disk0, ScratchKey)
    /\ IsDirK(disk, OutputKey) <=> IsDirK(disk0, OutputKey)

\* C8 as stated: a run that ends with a not-found error has changed neither the
\* scratch workspace nor the output directory and has invoked no toolchain.
C8_AsStated ==
    (pc = "done" /\ result \in NotFoundErrors) =>
        /\ WorkspaceUnchanged
        /\ exits = <<>>

\* C9 as stated: a run that ends with a configuration error has invoked no toolchain
\* and has changed nothing in the workspace, the output directory or the source tree.
C9_AsStated ==
    (pc = "done" /\ result \in ConfigErrors) =>
        /\ exits = <<>>
        /\ disk.files = disk0.files
        /\ WorkspaceUnchanged

\* a file the run has written: nothing the run writes is a leftover of an earlier run
ProducedByRun(k) == k \in DOMAIN disk.files /\ disk.files[k].kind # "stale"

\* C11 as stated: every file that was in the output directory before the run, and that
\* the run has not produced, is still there with the same content after a run whose
\* collection has completed.
C11_AsStated ==
    (pc = "done" /\ collected /\ result = "ok") =>
        \A k \in DOMAIN disk0.files :
            (Under(k, OutputKey) /\ ~ProducedByRun(k)) =>
                /\ k \in DOMAIN disk.files
                /\ disk.files[k] = disk0.files[k]

StagingKey == Key(Join(WorkDir, BuildDir))
ObjectKeys == {Key(Join(WorkDir, BuildCDir)), Key(Join(WorkDir, BuildTmpDir))}
BuildScriptKey == ScratchKey \o << <<"build", "py">> >>
Purged == ~IsDirK(disk, ScratchKey)

\* C13: when compile() has files to compile, the staging directory, the intermediate
\* object directories and the output directory are gone before the first toolchain
\* invocation, and the build spec is rewritten for it, so collection never finds a
\* staged artifact of an earlier run; the scratch workspace is purged only in release
\* mode and only once collection has completed, never after a failed compile().
C13_ClearedBeforePurgedAfter ==
    /\ (pc = "build" /\ exits = <<>>) =>
           \A k \in {StagingKey, OutputKey} \cup ObjectKeys : ~ExistsK(disk, k)
    /\ (exits # <<>> /\ ~Purged) =>
           /\ BuildScriptKey \in DOMAIN disk.files
           /\ disk.files[BuildScriptKey].kind = "script"
    /\ pc = "collect" =>
           \A k \in FilesUnder(disk, StagingKey) :
               /\ disk.files[k].kind = "native"
               /\ disk.files[k].of \in Keys(compile_files)
    /\ (exits # <<>> /\ Purged) =>
           /\ args.release
           /\ collected
           /\ pc \in {"bytecode", "done"}
           /\ result \notin {"Cython build failed", "SameFileError"}

C13_Witness ==
    /\ pc = "done"
    /\ result = "ok"
    /\ args.release
    /\ Purged
    /\ \E k \in DOMAIN disk0.files : Under(k, StagingKey)
    /\ BuildScriptKey \in DOMAIN disk0.files
    /\ NativeInOutput # {}

\* the files of the source tree when the run began: those of the source directory, or
\* the single source file
SourceTreeAtStart ==
    IF Truthy(args.source_dir) THEN FilesUnder(disk0, HomeKey)
    ELSE IF Truthy(args.source_file) THEN {Key(args.source_file)} \cap DOMAIN disk0.files
    ELSE {}

\* C14 as stated: in a run with a directory or single-file native compile, with or
\* without a bytecode step, every file of the source tree stays where it was with the
\* content it had, whatever the source directory, output directory and bytecode target.
C14_AsStated ==
    (Truthy(args.source_dir) # Truthy(args.source_file)) =>
        \A k \in SourceTreeAtStart :
            /\ k \in DOMAIN disk.files
            /\ disk.files[k] = disk0.files[k]

(* Claims about compile_to_bytecode (BytecodeSpec) *)

TargetKey == Key(args.bytecode_target)

\* the source files of the target when compile_to_bytecode was called
TargetSources ==
    IF IsFileK(disk0, TargetKey) THEN {TargetKey} ELSE CompileallSources(disk0, TargetKey)

\* the path of source k relative to the target (its name, for a file target)
RelToTarget(k) ==
    IF IsFileK(disk0, TargetKey) THEN <<Last(k)>> ELSE SubSeq(k, Len(TargetKey) + 1, Len(k))

IsArtifactOf(x, k) == x \in DOMAIN disk.files /\ disk.files[x] = [kind |-> "pyc", of |-> k]

\* C12 as stated: fresh mode keeps every source file of the target and leaves its
\* artifact <module>.pyc under output_dir at the source's path relative to the target;
\* in-place mode removes every compiled source file and leaves its artifact
\* <module>.pyc in the directory of the source; in both modes a target that is neither
\* a file nor a directory ends in a not-found error, a file target without .py is
\* rejected, and neither creates or deletes a file.
C12_AsStated ==
    /\ (pc = "fresh" /\ result = "ok") =>
           \A k \in TargetSources :
               /\ k \in DOMAIN disk.files
               /\ disk.files[k] = disk0.files[k]
               /\ IsArtifactOf(OutputKey \o WithExt(RelToTarget(k), "pyc"), k)
    /\ (pc = "in_place" /\ result = "ok") =>
           \A k \in TargetSources :
               /\ k \notin DOMAIN disk.files
               /\ IsArtifactOf(Front(k) \o <<SimpleName(k)>>, k)
    /\ pc \in {"fresh", "in_place"} =>
           /\ ~ExistsK(disk0, TargetKey) <=> result = "Target not found"
           /\ (IsFileK(disk0, TargetKey) /\ ~IsPySource(TargetKey))
                  <=> result = "Bytecode target must be a .py file or directory"
           /\ result # "ok" => disk.files = disk0.files

====
